---- MODULE Spec2Model ----
(***************************************************************************)
(* Model of the bezier-splines repository: the de Casteljau evaluators and *)
(* samplers (nb.py, tc.py, cb.py, pb.py) and the three interactive editors *)
(* (cb.py: fixed cubic, nb.py: variable degree, pb.py: piecewise cubic).   *)
(*                                                                         *)
(* Coordinates are exact rationals <<num, den>> in lowest terms.  float64  *)
(* arithmetic is exact on the small dyadic values the model draws, and for *)
(* t = 0 and t = 1 the interpolation (1-t)*a + t*b is exact in float64 for *)
(* all finite a, b.                                                        *)
(*                                                                         *)
(* The editors keep control_points as a Python list of numpy arrays: the   *)
(* list holds references.  The model keeps the list as a sequence of       *)
(* addresses and the arrays in a heap, so that an in-place write through   *)
(* one list entry is seen through every entry holding the same address.    *)
(***************************************************************************)
EXTENDS Integers, Sequences, FiniteSets, TLC

VARIABLES
    prog,            \* which script runs: "cb", "nb", "pb" ("eval": none)
    control_points,  \* the global list: a sequence of heap addresses
    heap,            \* address -> Point (the numpy arrays)
    dragging_point,  \* None or <<index>> (0-based, as in the code)
    outcome,         \* how the last handler ended
    op,              \* history: the last handler and its event
    before,          \* history: the list's point values before it ran
    counts,          \* history: handlers that changed the list so far
    steps,           \* history: number of handlers run
    args,            \* pure-function check: the control polygon passed
    call,            \* pure-function check: the function applied
    ret              \* pure-function check: what it returned or raised

vars == <<prog, control_points, heap, dragging_point, outcome, op, before,
          counts, steps, args, call, ret>>

editorVars == <<prog, control_points, heap, dragging_point, outcome, op,
                before, counts, steps>>

evalVars == <<args, call, ret>>

(***************************************************************************)
(* Bounds of the model.                                                    *)
(***************************************************************************)
MaxLen == 7       \* longest control polygon passed to a pure function
MaxSamples == 3   \* largest num_points passed to a sampler
MaxSteps == 7     \* handlers run in one editor session
MaxPoints == 7    \* longest control-point list an editor grows to

(***************************************************************************)
(* Exact rational arithmetic.                                              *)
(***************************************************************************)
Abs(n) == IF n < 0 THEN 0 - n ELSE n

RECURSIVE GCD(_, _)
GCD(a, b) == IF b = 0 THEN a ELSE GCD(b, a % b)

Rat(n, d) ==
    LET g == GCD(Abs(n), d)
    IN  <<n \div g, d \div g>>

Num(n) == <<n, 1>>

RAdd(a, b) ==
    LET g == GCD(a[2], b[2])
    IN  Rat(a[1] * (b[2] \div g) + b[1] * (a[2] \div g), (a[2] \div g) * b[2])

RSub(a, b) == RAdd(a, <<0 - b[1], b[2]>>)

RMul(a, b) == Rat(a[1] * b[1], a[2] * b[2])

RLess(a, b) == a[1] * b[2] < b[1] * a[2]

(***************************************************************************)
(* Points: numpy arrays of two floats, with numpy's elementwise operators. *)
(***************************************************************************)
Pt(x, y) == <<x, y>>

PAdd(p, q) == <<RAdd(p[1], q[1]), RAdd(p[2], q[2])>>

PScale(s, p) == <<RMul(s, p[1]), RMul(s, p[2])>>

\* (1 - t) * a + t * b
Lerp(t, a, b) == PAdd(PScale(RSub(Num(1), t), a), PScale(t, b))

(***************************************************************************)
(* What a call produces: a value, or an exception that propagates.         *)
(***************************************************************************)
Ok(v) == [exc |-> "none", val |-> v]

Raise(e) == [exc |-> e, val |-> <<>>]

(***************************************************************************)
(* The evaluators.                                                         *)
(***************************************************************************)
\* NextLevel with the two weights exchanged
NextLevelSwapped(points, t) ==
    IF Len(points) <= 1 THEN <<>>
    ELSE [i \in 1..(Len(points) - 1) |-> Lerp(t, points[i + 1], points[i])]

\* one pass of the inner loop: the next level's points
NextLevel(points, t) ==
    IF Len(points) <= 1 THEN <<>>
    ELSE [i \in 1..(Len(points) - 1) |-> Lerp(t, points[i], points[i + 1])]

RECURSIVE LevelLoop(_, _, _, _)
LevelLoop(points, t, level, num_levels) ==
    IF level >= num_levels THEN points
    ELSE LevelLoop(NextLevel(points, t), t, level + 1, num_levels)

\* LevelLoop with the executions of the interpolation statement counted
RECURSIVE CountedLevelLoop(_, _, _, _, _)
CountedLevelLoop(points, t, level, num_levels, ops) ==
    IF level >= num_levels
    THEN [points |-> points, levels |-> level, ops |-> ops]
    ELSE LET next_level_points == NextLevel(points, t)
         IN  CountedLevelLoop(next_level_points, t, level + 1, num_levels,
                              ops + Len(next_level_points))

de_casteljau_general(cp, t) ==
    LET points == LevelLoop(cp, t, 0, Len(cp) - 1)
    IN  IF Len(points) = 0 THEN Raise("IndexError") ELSE Ok(points[1])

\* de_casteljau_cubic with r1 taken from the wrong pair of first-level points
de_casteljau_cubic_wrong_pair(p0, p1, p2, p3, t) ==
    LET q0 == Lerp(t, p0, p1)
        q1 == Lerp(t, p1, p2)
        q2 == Lerp(t, p2, p3)
        r0 == Lerp(t, q0, q1)
        r1 == Lerp(t, q0, q2)
    IN  Lerp(t, r0, r1)

de_casteljau_cubic(p0, p1, p2, p3, t) ==
    LET q0 == Lerp(t, p0, p1)
        q1 == Lerp(t, p1, p2)
        q2 == Lerp(t, p2, p3)
        r0 == Lerp(t, q0, q1)
        r1 == Lerp(t, q1, q2)
    IN  Lerp(t, r0, r1)

de_casteljau(p0, p1, p2, p3, t) ==
    LET q0 == Lerp(t, p0, p1)
        q1 == Lerp(t, p1, p2)
        q2 == Lerp(t, p2, p3)
        r0 == Lerp(t, q0, q1)
        r1 == Lerp(t, q1, q2)
        b  == Lerp(t, r0, r1)
    IN  b

(***************************************************************************)
(* The samplers.                                                           *)
(***************************************************************************)
RECURSIVE CurveLoop(_, _, _, _)
CurveLoop(cp, num_points, i, curve_points) ==
    IF i >= num_points THEN Ok(curve_points)
    ELSE IF num_points - 1 = 0 THEN Raise("ZeroDivisionError")
    ELSE LET point == de_casteljau_general(cp, Rat(i, num_points - 1))
         IN  IF point.exc # "none" THEN Raise(point.exc)
             ELSE CurveLoop(cp, num_points, i + 1,
                            Append(curve_points, point.val))

generate_higher_order_bezier(cp, num_points) ==
    CurveLoop(cp, num_points, 0, <<>>)

\* nb.py's sampler: the same loop over its own de_casteljau_general
RECURSIVE BezierCurveLoop(_, _, _, _)
BezierCurveLoop(cp, num_points, i, curve_points) ==
    IF i >= num_points THEN Ok(curve_points)
    ELSE IF num_points - 1 = 0 THEN Raise("ZeroDivisionError")
    ELSE LET t == Rat(i, num_points - 1)
             point == de_casteljau_general(cp, t)
         IN  IF point.exc # "none" THEN Raise(point.exc)
             ELSE BezierCurveLoop(cp, num_points, i + 1,
                                  Append(curve_points, point.val))

generate_bezier_curve(cp, num_points) ==
    BezierCurveLoop(cp, num_points, 0, <<>>)

RECURSIVE SegmentLoop(_, _, _, _, _, _, _)
SegmentLoop(p0, p1, p2, p3, num_points, i, segment_points) ==
    IF i >= num_points THEN Ok(segment_points)
    ELSE IF num_points - 1 = 0 THEN Raise("ZeroDivisionError")
    ELSE SegmentLoop(p0, p1, p2, p3, num_points, i + 1,
             Append(segment_points,
                    de_casteljau_cubic(p0, p1, p2, p3,
                                       Rat(i, num_points - 1))))

RECURSIVE PiecewiseLoop(_, _, _, _, _)
PiecewiseLoop(cp, num_points, num_segments, seg_idx, all_curve_points) ==
    IF seg_idx >= num_segments THEN Ok(all_curve_points)
    ELSE LET start_idx == seg_idx * 3
             p0 == cp[start_idx + 1]
             p1 == cp[start_idx + 2]
             p2 == cp[start_idx + 3]
             p3 == cp[start_idx + 4]
             seg == SegmentLoop(p0, p1, p2, p3, num_points, 0, <<>>)
         IN  IF seg.exc # "none" THEN Raise(seg.exc)
             ELSE PiecewiseLoop(cp, num_points, num_segments, seg_idx + 1,
                                all_curve_points \o seg.val)

\* generate_piecewise_bezier counting four fresh points per segment
generate_piecewise_bezier_no_sharing(cp, num_points) ==
    LET num_segments == Len(cp) \div 4
    IN  PiecewiseLoop(cp, num_points, num_segments, 0, <<>>)

generate_piecewise_bezier(cp, num_points) ==
    LET num_segments == (Len(cp) - 1) \div 3
    IN  PiecewiseLoop(cp, num_points, num_segments, 0, <<>>)

(***************************************************************************)
(* tc.py's complexity report.                                              *)
(***************************************************************************)
num_control_points == 19

\* the benchmark's polygon: x = i, y = 2 + sin(0.5 i), y to the nearest
\* hundredth (the sine is not rational; the counts do not read the values)
tc_control_points ==
    << Pt(Num(0), Rat(200, 100)), Pt(Num(1), Rat(248, 100)), Pt(Num(2), Rat(284, 100)),
       Pt(Num(3), Rat(300, 100)), Pt(Num(4), Rat(291, 100)), Pt(Num(5), Rat(260, 100)),
       Pt(Num(6), Rat(214, 100)), Pt(Num(7), Rat(165, 100)), Pt(Num(8), Rat(124, 100)),
       Pt(Num(9), Rat(102, 100)), Pt(Num(10), Rat(104, 100)), Pt(Num(11), Rat(129, 100)),
       Pt(Num(12), Rat(172, 100)), Pt(Num(13), Rat(222, 100)), Pt(Num(14), Rat(266, 100)),
       Pt(Num(15), Rat(294, 100)), Pt(Num(16), Rat(299, 100)), Pt(Num(17), Rat(280, 100)),
       Pt(Num(18), Rat(241, 100)) >>

\* higher_order_ops with n(n+1)/2 in place of n(n-1)/2
higher_order_ops_plus(n) == (n * (n + 1)) \div 2

higher_order_ops(n) == (n * (n - 1)) \div 2

piecewise_ops(n) == 6 * ((n - 1) \div 3)

\* f"{x:.2f}": the number of hundredths printed (x is a non-negative
\* rational; a tie at the third decimal is rounded up here)
Format2f(x) == (2 * 100 * x[1] + x[2]) \div (2 * x[2])

complexity_report ==
    [ higher_order |-> higher_order_ops(num_control_points),
      piecewise |-> piecewise_ops(num_control_points),
      ratio |-> Format2f(Rat(higher_order_ops(num_control_points),
                             piecewise_ops(num_control_points))) ]

(***************************************************************************)
(* pb.py's partition of the flat list into cubic segments (the list is     *)
(* passed explicitly; the script reads its global).                        *)
(***************************************************************************)
get_num_segments(cp) == (Len(cp) - 1) \div 3

get_segment_control_points(cp, segment_index) ==
    LET start_idx == segment_index * 3
        p0 == cp[start_idx + 1]
        p1 == cp[start_idx + 2]
        p2 == cp[start_idx + 3]
        p3 == cp[start_idx + 4]
    IN  <<p0, p1, p2, p3>>

(***************************************************************************)
(* Pure-function specification: Init draws a control polygon, each action  *)
(* applies one evaluator or sampler to it and records what it produced.    *)
(***************************************************************************)
None == <<>>

NoOp == [name |-> "none", inaxes |-> FALSE, pos |-> <<>>]

NoCounts == [inc |-> 0, dec |-> 0, add |-> 0, moved |-> 0]

NoCall == [fn |-> "none", t |-> Num(0), n |-> 0]

EditorIdle ==
    /\ prog = "eval"
    /\ control_points = <<>>
    /\ heap = <<>>
    /\ dragging_point = None
    /\ outcome = "none"
    /\ op = NoOp
    /\ before = [cp |-> <<>>, heap |-> <<>>]
    /\ counts = NoCounts
    /\ steps = 0

EvalIdle ==
    /\ args = <<>>
    /\ call = NoCall
    /\ ret = Ok(<<>>)

\* the points polygons are drawn from: three control points of the scripts
EvalPoints ==
    { Pt(Num(1), Num(1)), Pt(Num(4), Num(3)), Pt(Num(2), Rat(7, 2)) }

Polygons == UNION { [1..n -> EvalPoints] : n \in 0..MaxLen }

\* the parameter grid
TGrid == { Num(0), Rat(1, 4), Rat(1, 2), Rat(3, 4), Num(1) }

NumPoints == (0 - 1)..MaxSamples

EvalInit ==
    /\ EditorIdle
    /\ args \in Polygons
    /\ call = NoCall
    /\ ret = Ok(<<>>)

CallGeneral ==
    /\ call.fn = "none"
    /\ \E t \in TGrid :
         /\ call' = [fn |-> "de_casteljau_general", t |-> t, n |-> 0]
         /\ ret' = de_casteljau_general(args, t)
    /\ UNCHANGED <<args, editorVars>>

CallCubic ==
    /\ call.fn = "none"
    /\ Len(args) = 4
    /\ \E t \in TGrid :
         /\ call' = [fn |-> "de_casteljau_cubic", t |-> t, n |-> 0]
         /\ ret' = Ok(de_casteljau_cubic(args[1], args[2], args[3], args[4], t))
    /\ UNCHANGED <<args, editorVars>>

CallDeCasteljau ==
    /\ call.fn = "none"
    /\ Len(args) = 4
    /\ \E t \in TGrid :
         /\ call' = [fn |-> "de_casteljau", t |-> t, n |-> 0]
         /\ ret' = Ok(de_casteljau(args[1], args[2], args[3], args[4], t))
    /\ UNCHANGED <<args, editorVars>>

CallHigherOrder ==
    /\ call.fn = "none"
    /\ \E n \in NumPoints :
         /\ call' = [fn |-> "generate_higher_order_bezier", t |-> Num(0), n |-> n]
         /\ ret' = generate_higher_order_bezier(args, n)
    /\ UNCHANGED <<args, editorVars>>

CallPiecewise ==
    /\ call.fn = "none"
    /\ \E n \in NumPoints :
         /\ call' = [fn |-> "generate_piecewise_bezier", t |-> Num(0), n |-> n]
         /\ ret' = generate_piecewise_bezier(args, n)
    /\ UNCHANGED <<args, editorVars>>

CallBezierCurve ==
    /\ call.fn = "none"
    /\ \E n \in NumPoints :
         /\ call' = [fn |-> "generate_bezier_curve", t |-> Num(0), n |-> n]
         /\ ret' = generate_bezier_curve(args, n)
    /\ UNCHANGED <<args, editorVars>>

RunComplexityReport ==
    /\ call.fn = "none"
    /\ call' = [fn |-> "complexity_report", t |-> Num(0),
                n |-> num_control_points]
    /\ ret' = Ok(complexity_report)
    /\ UNCHANGED <<args, editorVars>>

EvalNext ==
    \/ RunComplexityReport
    \/ CallGeneral
    \/ CallBezierCurve
    \/ CallCubic
    \/ CallDeCasteljau
    \/ CallHigherOrder
    \/ CallPiecewise

SpecEval == EvalInit /\ [][EvalNext]_vars

(***************************************************************************)
(* The editors.  Every handler ends in draw_scene, which reads the list    *)
(* and writes only matplotlib objects (the axes, point_circles); the plot  *)
(* is not part of the modelled state.                                      *)
(***************************************************************************)
cb_control_points ==
    << Pt(Num(1), Num(1)), Pt(Num(2), Num(3)),
       Pt(Num(4), Num(3)), Pt(Num(5), Num(1)) >>

nb_control_points ==
    << Pt(Num(1), Num(1)), Pt(Num(2), Num(3)),
       Pt(Num(4), Num(3)), Pt(Num(5), Num(1)) >>

pb_control_points ==
    << Pt(Num(1), Num(2)), Pt(Num(2), Rat(7, 2)),
       Pt(Num(3), Rat(7, 2)), Pt(Num(4), Num(2)) >>

InitialPoints(p) ==
    CASE p = "cb" -> cb_control_points
      [] p = "nb" -> nb_control_points
      [] p = "pb" -> pb_control_points

\* the point values of a list of addresses
Values(cp, h) == [i \in 1..Len(cp) |-> h[cp[i]]]

Addresses(cp) == { cp[i] : i \in 1..Len(cp) }

\* the address numpy gives a newly created array: one not in use
NewAddress(used) ==
    CHOOSE a \in 1..(Cardinality(used) + 1) :
        a \notin used /\ \A b \in 1..(a - 1) : b \in used

\* the heap after the list became cp: arrays no longer referenced are freed
Collect(cp, h) == [a \in Addresses(cp) |-> h[a]]

Store(h, a, v) == [b \in (DOMAIN h) \cup {a} |-> IF b = a THEN v ELSE h[b]]

Idx(dp) == dp[1]

Snapshot == [cp |-> control_points, heap |-> heap]

\* where the mouse can be dragged to
DragPositions == { Pt(Num(2), Num(3)), Pt(Num(3), Rat(1, 2)) }

\* where the mouse can be pressed: on a control point, on a drag position,
\* near the first control point, or away from everything
ClickPositions ==
    { heap[a] : a \in Addresses(control_points) }
      \cup DragPositions
      \cup { PAdd(heap[control_points[1]], Pt(Rat(1, 8), Num(0))),
             Pt(Num(0), Num(0)) }

OutsideEvent == [inaxes |-> FALSE, pos |-> <<>>]

PressEvents ==
    { [inaxes |-> TRUE, pos |-> c] : c \in ClickPositions } \cup {OutsideEvent}

MotionEvents ==
    { [inaxes |-> TRUE, pos |-> c] : c \in DragPositions } \cup {OutsideEvent}

\* np.sqrt((xdata - point[0])**2 + (ydata - point[1])**2) < 0.2
Near(pos, point) ==
    LET dx == RSub(pos[1], point[1])
        dy == RSub(pos[2], point[2])
    IN  RLess(RAdd(RMul(dx, dx), RMul(dy, dy)), Rat(1, 25))

\* the press handlers' loop: the first point close enough to the click
RECURSIVE PickLoop(_, _, _, _)
PickLoop(pts, pos, i, dp) ==
    IF i >= Len(pts) THEN dp
    ELSE IF Near(pos, pts[i + 1]) THEN <<i>>
    ELSE PickLoop(pts, pos, i + 1, dp)

History(name, ev) ==
    /\ op' = [name |-> name, inaxes |-> ev.inaxes, pos |-> ev.pos]
    /\ before' = Snapshot
    /\ steps' = steps + 1

on_press(name, ev) ==
    /\ IF ~ev.inaxes
       THEN /\ outcome' = "returned"
            /\ UNCHANGED dragging_point
       ELSE /\ dragging_point' =
                 PickLoop(Values(control_points, heap), ev.pos, 0,
                          dragging_point)
            /\ outcome' = "ok"
    /\ History(name, ev)
    /\ UNCHANGED <<prog, control_points, heap, counts, evalVars>>

on_motion(name, ev) ==
    /\ IF dragging_point = None \/ ~ev.inaxes
       THEN /\ outcome' = "returned"
            /\ UNCHANGED <<heap, counts>>
       ELSE IF Idx(dragging_point) >= Len(control_points)
       THEN /\ outcome' = "IndexError"
            /\ UNCHANGED <<heap, counts>>
       ELSE LET a == control_points[Idx(dragging_point) + 1]
                h1 == [heap EXCEPT ![a][1] = ev.pos[1]]
                h2 == [h1 EXCEPT ![a][2] = ev.pos[2]]
            IN  /\ heap' = h2
                /\ counts' = [counts EXCEPT !.moved = @ + 1]
                /\ outcome' = "ok"
    /\ History(name, ev)
    /\ UNCHANGED <<prog, control_points, dragging_point, evalVars>>

on_release(name) ==
    /\ dragging_point' = None
    /\ outcome' = "ok"
    /\ History(name, OutsideEvent)
    /\ UNCHANGED <<prog, control_points, heap, counts, evalVars>>

Running(p) == prog = p /\ steps < MaxSteps

cb_on_press == Running("cb") /\ \E ev \in PressEvents : on_press("on_press", ev)

cb_on_motion ==
    /\ Running("cb")
    /\ \E ev \in MotionEvents :
         /\ IF dragging_point = None \/ ~ev.inaxes
            THEN /\ outcome' = "returned"
                 /\ UNCHANGED <<heap, counts>>
            ELSE IF Idx(dragging_point) >= Len(control_points)
            THEN /\ outcome' = "IndexError"
                 /\ UNCHANGED <<heap, counts>>
            ELSE /\ heap' = [heap EXCEPT
                               ![control_points[Idx(dragging_point) + 1]] =
                                  Pt(ev.pos[1], ev.pos[2])]
                 /\ counts' = [counts EXCEPT !.moved = @ + 1]
                 /\ outcome' = "ok"
         /\ History("on_motion", ev)
    /\ UNCHANGED <<prog, control_points, dragging_point, evalVars>>

cb_on_release == Running("cb") /\ on_release("on_release")

get_degree == Len(control_points) - 1

nb_on_press == Running("nb") /\ \E ev \in PressEvents : on_press("on_press", ev)

nb_on_motion ==
    Running("nb") /\ \E ev \in MotionEvents : on_motion("on_motion", ev)

nb_on_release == Running("nb") /\ on_release("on_release")

\* increase_degree appending the new point after the last point
increase_degree_appends ==
    /\ Running("nb")
    /\ Len(control_points) < MaxPoints
    /\ LET n == Len(control_points)
           last_point == heap[control_points[n]]
           second_last_point == heap[control_points[n - 1]]
           sum == PAdd(second_last_point, last_point)
           mid == PScale(Rat(1, 2), sum)
           new_point == Pt(mid[1], RAdd(mid[2], Rat(1, 2)))
           a == NewAddress(DOMAIN heap)
       IN  /\ heap' = Store(heap, a, new_point)
           /\ control_points' = control_points \o <<a>>
    /\ counts' = [counts EXCEPT !.inc = @ + 1]
    /\ outcome' = "ok"
    /\ History("increase_degree", OutsideEvent)
    /\ UNCHANGED <<prog, dragging_point, evalVars>>

\* increase_degree offsetting last_point in place and inserting that same
\* array (new_point = last_point; new_point[1] += 0.5)
increase_degree_in_place ==
    /\ Running("nb")
    /\ Len(control_points) < MaxPoints
    /\ LET n == Len(control_points)
           a == control_points[n]
           last_point == heap[a]
       IN  /\ heap' = [heap EXCEPT ![a][2] = RAdd(last_point[2], Rat(1, 2))]
           /\ control_points' =
                SubSeq(control_points, 1, n - 1) \o <<a>>
                  \o SubSeq(control_points, n, n)
    /\ counts' = [counts EXCEPT !.inc = @ + 1]
    /\ outcome' = "ok"
    /\ History("increase_degree", OutsideEvent)
    /\ UNCHANGED <<prog, dragging_point, evalVars>>

increase_degree ==
    /\ Running("nb")
    /\ Len(control_points) < MaxPoints
    /\ LET n == Len(control_points)
           last_point == heap[control_points[n]]
           second_last_point == heap[control_points[n - 1]]
           sum == PAdd(second_last_point, last_point)
           mid == PScale(Rat(1, 2), sum)
           new_point == Pt(mid[1], RAdd(mid[2], Rat(1, 2)))
           a == NewAddress(DOMAIN heap)
       IN  /\ heap' = Store(heap, a, new_point)
           /\ control_points' =
                SubSeq(control_points, 1, n - 1) \o <<a>>
                  \o SubSeq(control_points, n, n)
    /\ counts' = [counts EXCEPT !.inc = @ + 1]
    /\ outcome' = "ok"
    /\ History("increase_degree", OutsideEvent)
    /\ UNCHANGED <<prog, dragging_point, evalVars>>

\* decrease_degree with the floor test off by one (len < 2)
decrease_degree_floor_off_by_one ==
    /\ Running("nb")
    /\ IF Len(control_points) < 2
       THEN /\ outcome' = "cannot_decrease"
            /\ UNCHANGED <<control_points, heap, counts>>
       ELSE LET n == Len(control_points)
                cp == SubSeq(control_points, 1, n - 2)
                        \o SubSeq(control_points, n, n)
            IN  /\ control_points' = cp
                /\ heap' = Collect(cp, heap)
                /\ counts' = [counts EXCEPT !.dec = @ + 1]
                /\ outcome' = "ok"
    /\ History("decrease_degree", OutsideEvent)
    /\ UNCHANGED <<prog, dragging_point, evalVars>>

\* decrease_degree removing the last point (pop(-1))
decrease_degree_pops_last ==
    /\ Running("nb")
    /\ IF Len(control_points) <= 2
       THEN /\ outcome' = "cannot_decrease"
            /\ UNCHANGED <<control_points, heap, counts>>
       ELSE LET n == Len(control_points)
                cp == SubSeq(control_points, 1, n - 1)
            IN  /\ control_points' = cp
                /\ heap' = Collect(cp, heap)
                /\ counts' = [counts EXCEPT !.dec = @ + 1]
                /\ outcome' = "ok"
    /\ History("decrease_degree", OutsideEvent)
    /\ UNCHANGED <<prog, dragging_point, evalVars>>

\* decrease_degree removing the point at index 1 (pop(1))
decrease_degree_pops_index_1 ==
    /\ Running("nb")
    /\ IF Len(control_points) <= 2
       THEN /\ outcome' = "cannot_decrease"
            /\ UNCHANGED <<control_points, heap, counts>>
       ELSE LET n == Len(control_points)
                cp == SubSeq(control_points, 1, 1)
                        \o SubSeq(control_points, 3, n)
            IN  /\ control_points' = cp
                /\ heap' = Collect(cp, heap)
                /\ counts' = [counts EXCEPT !.dec = @ + 1]
                /\ outcome' = "ok"
    /\ History("decrease_degree", OutsideEvent)
    /\ UNCHANGED <<prog, dragging_point, evalVars>>

decrease_degree ==
    /\ Running("nb")
    /\ IF Len(control_points) <= 2
       THEN /\ outcome' = "cannot_decrease"
            /\ UNCHANGED <<control_points, heap, counts>>
       ELSE LET n == Len(control_points)
                cp == SubSeq(control_points, 1, n - 2)
                        \o SubSeq(control_points, n, n)
            IN  /\ control_points' = cp
                /\ heap' = Collect(cp, heap)
                /\ counts' = [counts EXCEPT !.dec = @ + 1]
                /\ outcome' = "ok"
    /\ History("decrease_degree", OutsideEvent)
    /\ UNCHANGED <<prog, dragging_point, evalVars>>

pb_on_press == Running("pb") /\ \E ev \in PressEvents : on_press("on_press", ev)

pb_on_motion ==
    Running("pb") /\ \E ev \in MotionEvents : on_motion("on_motion", ev)

pb_on_release == Running("pb") /\ on_release("on_release")

\* add_segment placing each new point relative to the one before it
add_segment_chained ==
    /\ Running("pb")
    /\ Len(control_points) + 3 <= MaxPoints
    /\ LET last_point == heap[control_points[Len(control_points)]]
           new_p1 == PAdd(last_point, Pt(Num(1), Rat(1, 2)))
           new_p2 == PAdd(new_p1, Pt(Num(2), Rat(1, 2)))
           new_p3 == PAdd(new_p2, Pt(Num(3), Num(0)))
           a1 == NewAddress(DOMAIN heap)
           a2 == NewAddress((DOMAIN heap) \cup {a1})
           a3 == NewAddress((DOMAIN heap) \cup {a1, a2})
       IN  /\ heap' = Store(Store(Store(heap, a1, new_p1), a2, new_p2),
                            a3, new_p3)
           /\ control_points' = control_points \o <<a1, a2, a3>>
    /\ counts' = [counts EXCEPT !.add = @ + 1]
    /\ outcome' = "ok"
    /\ History("add_segment", OutsideEvent)
    /\ UNCHANGED <<prog, dragging_point, evalVars>>

add_segment ==
    /\ Running("pb")
    /\ Len(control_points) + 3 <= MaxPoints
    /\ LET last_point == heap[control_points[Len(control_points)]]
           new_p1 == PAdd(last_point, Pt(Num(1), Rat(1, 2)))
           new_p2 == PAdd(last_point, Pt(Num(2), Rat(1, 2)))
           new_p3 == PAdd(last_point, Pt(Num(3), Num(0)))
           a1 == NewAddress(DOMAIN heap)
           a2 == NewAddress((DOMAIN heap) \cup {a1})
           a3 == NewAddress((DOMAIN heap) \cup {a1, a2})
       IN  /\ heap' = Store(Store(Store(heap, a1, new_p1), a2, new_p2),
                            a3, new_p3)
           /\ control_points' = control_points \o <<a1, a2, a3>>
    /\ counts' = [counts EXCEPT !.add = @ + 1]
    /\ outcome' = "ok"
    /\ History("add_segment", OutsideEvent)
    /\ UNCHANGED <<prog, dragging_point, evalVars>>

Init ==
    /\ prog \in {"cb", "nb", "pb"}
    /\ control_points = <<1, 2, 3, 4>>
    /\ heap = [a \in 1..4 |-> InitialPoints(prog)[a]]
    /\ dragging_point = None
    /\ outcome = "none"
    /\ op = NoOp
    /\ before = [cp |-> <<1, 2, 3, 4>>,
                 heap |-> [a \in 1..4 |-> InitialPoints(prog)[a]]]
    /\ counts = NoCounts
    /\ steps = 0
    /\ EvalIdle

Next ==
    \/ cb_on_press
    \/ cb_on_motion
    \/ cb_on_release
    \/ nb_on_press
    \/ nb_on_motion
    \/ nb_on_release
    \/ increase_degree
    \/ decrease_degree
    \/ pb_on_press
    \/ pb_on_motion
    \/ pb_on_release
    \/ add_segment

Spec == Init /\ [][Next]_vars

(***************************************************************************)
(* Claims about the evaluators and samplers (checked under SpecEval).      *)
(***************************************************************************)
Last(seq) == seq[Len(seq)]

\* C1: for every control polygon of at least 2 points the general evaluator
\* returns exactly the first control point at t = 0 and exactly the last at
\* t = 1, and so does cb.py's cubic evaluator de_casteljau on 4 points.
C1_EndpointInterpolation ==
    /\ (call.fn = "de_casteljau_general" /\ Len(args) >= 2)
         => /\ call.t = Num(0) => ret = Ok(args[1])
            /\ call.t = Num(1) => ret = Ok(Last(args))
    /\ call.fn = "de_casteljau"
         => /\ call.t = Num(0) => ret = Ok(args[1])
            /\ call.t = Num(1) => ret = Ok(args[4])

C1_Witness ==
    /\ call.fn = "de_casteljau_general"
    /\ Len(args) = 5
    /\ call.t = Num(1)
    /\ args[1] # args[5]
    /\ args[4] # args[5]
    /\ ret = Ok(args[5])

\* C2: on every 4-point polygon and every t of the grid {0, 1/4, 1/2, 3/4, 1}
\* the cubic evaluator de_casteljau_cubic returns the point the general
\* evaluator returns.
C2_CubicAgreesWithGeneral ==
    call.fn = "de_casteljau_cubic" => ret = de_casteljau_general(args, call.t)

C2_Witness ==
    /\ call.fn = "de_casteljau_cubic"
    /\ call.t = Rat(1, 4)
    /\ Cardinality({args[i] : i \in 1..4}) = 3
    /\ ret.exc = "none"
    /\ ret.val \notin {args[i] : i \in 1..4}
    /\ ret = de_casteljau_general(args, call.t)

\* C3: for a list of length 3m+1 and num_points N >= 2 the piecewise sampler
\* returns exactly m*N points; position k*N+i holds sample i of segment k
\* (the cubic curve of get_segment_control_points(k) at t = i/(N-1)); and at
\* every shared index 3k, 1 <= k < m, the last point of segment k-1 and the
\* first point of segment k both equal control point 3k.
C3_PiecewiseLayout ==
    (/\ call.fn = "generate_piecewise_bezier"
     /\ Len(args) >= 1
     /\ (Len(args) - 1) % 3 = 0
     /\ call.n >= 2)
    => LET m == get_num_segments(args)
           N == call.n
           out == ret.val
       IN  /\ ret.exc = "none"
           /\ Len(args) = 3 * m + 1
           /\ Len(out) = m * N
           /\ \A k \in 0..(m - 1) : \A i \in 0..(N - 1) :
                LET seg == get_segment_control_points(args, k)
                IN  out[k * N + i + 1] =
                      de_casteljau(seg[1], seg[2], seg[3], seg[4],
                                   Rat(i, N - 1))
           /\ \A k \in 1..(m - 1) :
                /\ out[k * N] = args[3 * k + 1]
                /\ out[k * N + 1] = args[3 * k + 1]

C3_Witness ==
    /\ call.fn = "generate_piecewise_bezier"
    /\ Len(args) = 7
    /\ call.n = 3
    /\ ret.exc = "none"
    /\ Len(ret.val) = 6
    /\ ret.val[3] = args[4]
    /\ ret.val[4] = args[4]
    /\ args[4] # args[1]
    /\ args[4] # args[7]
    /\ ret.val[2] # ret.val[5]

\* C9 (as the spec states it): given fewer than 2 control points the
\* evaluator fails for every t and never returns a point.
C9_RejectsFewerThanTwoPoints ==
    (call.fn = "de_casteljau_general" /\ Len(args) < 2) => ret.exc # "none"

\* C10 (as the spec states it): the piecewise sampler fails on every list
\* whose length L does not satisfy (L-1) % 3 = 0 and returns no points for it.
C10_RejectsBadPiecewiseLength ==
    (call.fn = "generate_piecewise_bezier" /\ (Len(args) - 1) % 3 # 0)
    => ret.exc # "none"

\* C11 (as the spec states it): on a control polygon of at least 2 points
\* the curve samplers treat degenerate sample counts as errors: with
\* num_points = 1 they fail or return exactly the one point evaluate(cp, 0);
\* with num_points < 1 they fail instead of returning an empty sequence; with
\* num_points >= 2 they return num_points points, the i-th at t = i/(N-1).
C11_DegenerateSampleCounts ==
    (/\ call.fn \in {"generate_bezier_curve", "generate_higher_order_bezier"}
     /\ Len(args) >= 2)
    => /\ call.n = 1 =>
            \/ ret.exc # "none"
            \/ ret = Ok(<<de_casteljau_general(args, Num(0)).val>>)
       /\ call.n < 1 => ret.exc # "none"
       /\ call.n >= 2 =>
            /\ ret.exc = "none"
            /\ Len(ret.val) = call.n
            /\ \A i \in 0..(call.n - 1) :
                 Ok(ret.val[i + 1]) =
                    de_casteljau_general(args, Rat(i, call.n - 1))

\* C12: for n >= 1 control points one call of the general evaluator runs
\* n-1 levels, executes exactly n(n-1)/2 interpolations, which is the
\* single-curve count higher_order_ops, and ends with exactly one point, the
\* result; for n = 3m+1 the piecewise count is 6m, 6 being the interpolations
\* of one cubic evaluation; for n = 19 the report gives 171 and 36 and the
\* ratio 171/36, printed as 4.75.
C12_OperationCounts ==
    /\ (call.fn = "de_casteljau_general" /\ Len(args) >= 1) =>
         LET n == Len(args)
             run == CountedLevelLoop(args, call.t, 0, n - 1, 0)
         IN  /\ run.levels = n - 1
             /\ run.ops = higher_order_ops(n)
             /\ 2 * run.ops = n * (n - 1)
             /\ Len(run.points) = 1
             /\ ret = Ok(run.points[1])
             /\ (n - 1) % 3 = 0 =>
                  LET m == get_num_segments(args)
                  IN  /\ 3 * m + 1 = n
                      /\ piecewise_ops(n) = 6 * m
             /\ n = 4 => run.ops = 6 /\ piecewise_ops(n) = run.ops
    /\ call.fn = "complexity_report" =>
         /\ call.n = 19
         /\ ret.val.higher_order = 171
         /\ ret.val.piecewise = 36
         /\ 36 * ret.val.ratio = 171 * 100
         /\ ret.val.ratio = 475
         /\ Len(tc_control_points) = call.n
         /\ LET run == CountedLevelLoop(tc_control_points, Num(1), 0,
                                        call.n - 1, 0)
            IN  /\ run.levels = 18
                /\ run.ops = ret.val.higher_order
                /\ Len(run.points) = 1
         /\ get_num_segments(tc_control_points) = 6
         /\ ret.val.piecewise = 6 * get_num_segments(tc_control_points)

C12_Witness ==
    /\ call.fn = "de_casteljau_general"
    /\ Len(args) = 7
    /\ call.t = Rat(1, 4)
    /\ CountedLevelLoop(args, call.t, 0, 6, 0).ops = 21
    /\ piecewise_ops(7) = 12
    /\ ret.exc = "none"
    /\ ret.val \notin { args[i] : i \in 1..7 }

(***************************************************************************)
(* Claims about the editors (checked under Spec).                          *)
(***************************************************************************)
ValuesNow == Values(control_points, heap)

ValuesBefore == Values(before.cp, before.heap)

RemoveAt(seq, i) == SubSeq(seq, 1, i - 1) \o SubSeq(seq, i + 1, Len(seq))

\* C4: decrease_degree on a list of 2 or fewer points refuses (it reports
\* that the degree cannot be decreased) and leaves the list and every point
\* unchanged; on a longer list it removes exactly the second-to-last point
\* and leaves every other point unchanged and in order.
C4_DecreaseDegree ==
    op.name = "decrease_degree" =>
        IF Len(before.cp) <= 2
        THEN /\ outcome = "cannot_decrease"
             /\ control_points = before.cp
             /\ ValuesNow = ValuesBefore
        ELSE /\ outcome = "ok"
             /\ control_points = RemoveAt(before.cp, Len(before.cp) - 1)
             /\ ValuesNow = RemoveAt(ValuesBefore, Len(before.cp) - 1)

C4_Witness ==
    /\ op.name = "decrease_degree"
    /\ Len(before.cp) = 2
    /\ outcome = "cannot_decrease"
    /\ Len(control_points) = 2
    /\ counts.dec = 2

\* C5: increase_degree on a list of length L >= 2 yields length L+1; the
\* points formerly at indices 0..L-2 keep index and value, the former last
\* point is at index L, and the new point, at index L-1, is the midpoint of
\* the former last two points with 0.5 added to its y-coordinate only.
C5_IncreaseDegree ==
    op.name = "increase_degree" =>
        LET L == Len(before.cp)
            old == ValuesBefore
            now == ValuesNow
        IN  /\ L >= 2
            /\ Len(control_points) = L + 1
            /\ \A j \in 1..(L - 1) :
                 control_points[j] = before.cp[j] /\ now[j] = old[j]
            /\ control_points[L + 1] = before.cp[L]
            /\ now[L + 1] = old[L]
            /\ control_points[L] \notin Addresses(before.cp)
            /\ now[L][1] = RMul(RAdd(old[L - 1][1], old[L][1]), Rat(1, 2))
            /\ now[L][2] = RAdd(RMul(RAdd(old[L - 1][2], old[L][2]), Rat(1, 2)),
                                Rat(1, 2))

C5_Witness ==
    /\ op.name = "increase_degree"
    /\ Len(before.cp) = 5
    /\ Len(control_points) = 6
    /\ counts.moved >= 1
    /\ ValuesNow[5] \notin { ValuesBefore[j] : j \in 1..5 }

\* C6: in the variable-degree editor the list always has at least 2 points
\* and get_degree() = 3 + increases - successful decreases; a degree change
\* leaves the first and the last point as they were, so as long as no point
\* was relocated they are the initial first and last points.
C6_DegreeAndEndpoints ==
    prog = "nb" =>
        /\ Len(control_points) >= 2
        /\ get_degree = 3 + counts.inc - counts.dec
        /\ op.name \in {"increase_degree", "decrease_degree"}
             => /\ control_points[1] = before.cp[1]
                /\ Last(control_points) = Last(before.cp)
                /\ ValuesNow[1] = ValuesBefore[1]
                /\ Last(ValuesNow) = Last(ValuesBefore)
        /\ counts.moved = 0
             => /\ ValuesNow[1] = nb_control_points[1]
                /\ Last(ValuesNow) = nb_control_points[4]

C6_Witness ==
    /\ prog = "nb"
    /\ counts.moved = 0
    /\ counts.inc = 2
    /\ counts.dec = 4
    /\ op.name = "decrease_degree"
    /\ outcome = "cannot_decrease"
    /\ get_degree = 1

NoSharedStorage ==
    \A i, j \in 1..Len(control_points) :
        i # j => control_points[i] # control_points[j]

C8_RelocationFrame ==
    /\ prog \in {"cb", "nb", "pb"} => NoSharedStorage
    /\ op.name = "on_motion" =>
         /\ control_points = before.cp
         /\ IF outcome = "ok"
            THEN LET i == Idx(dragging_point) + 1
                 IN  /\ i \in 1..Len(control_points)
                     /\ ValuesNow[i] = op.pos
                     /\ \A j \in 1..Len(control_points) :
                          j # i => ValuesNow[j] = ValuesBefore[j]
            ELSE ValuesNow = ValuesBefore

C8_Witness ==
    /\ prog = "nb"
    /\ op.name = "on_motion"
    /\ outcome = "ok"
    /\ counts.inc = 1
    /\ counts.dec = 0
    /\ Idx(dragging_point) = 3
    /\ ValuesNow[4] # ValuesBefore[4]
    /\ ValuesNow[5] = nb_control_points[4]

\* C13 (as stated): in the variable-degree editor, under any interleaving of
\* the press, motion, release, increase and decrease callbacks,
\* dragging_point is None or a valid index of the current list, and a handler
\* leaves it denoting the array it denoted before the handler ran (so it
\* still denotes the point the press selected); on_motion never indexes past
\* the end of the list.
C13_DragIndexValid ==
    prog = "nb" =>
        /\ outcome # "IndexError"
        /\ dragging_point # None =>
             /\ Idx(dragging_point) >= 0
             /\ Idx(dragging_point) < Len(control_points)
             /\ op.name \in {"increase_degree", "decrease_degree",
                              "on_motion"}
                  => /\ Idx(dragging_point) < Len(before.cp)
                     /\ control_points[Idx(dragging_point) + 1] =
                          before.cp[Idx(dragging_point) + 1]

\* C14: for every list of at least 2 points, increase_degree immediately
\* followed by decrease_degree restores the whole list: the decrease goes
\* through, and the same arrays with the same values stand at the same
\* indices as before the increase.
C14_IncreaseThenDecrease ==
    [][(prog = "nb" /\ op.name = "increase_degree"
          /\ op'.name = "decrease_degree")
       => /\ Len(before.cp) >= 2
          /\ outcome' = "ok"
          /\ control_points' = before.cp
          /\ Values(control_points', heap') = ValuesBefore
          /\ before'.cp = control_points
          /\ Len(control_points) = Len(before.cp) + 1]_vars

C14_Witness ==
    /\ prog = "nb"
    /\ steps = 2
    /\ counts.inc = 1
    /\ counts.dec = 1
    /\ op.name = "decrease_degree"
    /\ outcome = "ok"
    /\ Len(before.cp) = 5
    /\ control_points = <<1, 2, 3, 4>>
    /\ ValuesNow = nb_control_points

====
